---- MODULE Spec2Model ----
(***************************************************************************)
(* CallSession of ringcentral-softphone-ts (src/unnamed/part_000): the     *)
(* session object, its UDP socket, its SRTP context and the listeners it   *)
(* registers on the shared signaling channel (the softphone).              *)
(*                                                                         *)
(* Every action is one call of a method or one run of a callback.  Node    *)
(* runs each of them to completion, so an action is atomic.  What a call   *)
(* does to the outside (requests and responses handed to softphone.send,   *)
(* calls of socket.send, events emitted, an exception leaving the call) is *)
(* recorded in lastOp; what it does to the objects is in the other         *)
(* variables.                                                              *)
(***************************************************************************)
EXTENDS Naturals, Sequences, FiniteSets

VARIABLES
  phase,          \* per session: "none" (not constructed), "constructed", "started",
                  \* "failed" (startLocalServices threw)
  remote,         \* per session: remoteIP / remotePort parsed by the constructor
  socket,         \* per session: "none" (this.socket undefined), "binding", "open",
                  \* "closed", "orphaned" (close() queued behind a bind whose flush
                  \* listener is gone), "leaked" (that bind completed: open for good)
  socketHandler,  \* per session: the socket has its 'message' listener
  disposed,       \* per session: this.disposed
  srtpSession,    \* per session: "undefined" or "set"
  listeners,      \* softphone 'message' listeners, in registration order
  emitted,        \* per session: 'busy' / 'disposed' emit calls, in order
  closeCalls,     \* per session: number of socket.close() calls
  disposeCalls,   \* per session: number of direct dispose() calls
  hungUp,         \* per session: hangup() has been called (history, kept by SpecHangup)
  replaced,       \* per session: sockets a later startLocalServices() took out of
                  \* this.socket while they were bound or binding with their
                  \* 'message' listener: nothing closes them any more
  lastOp          \* the last call or callback and its outward effects

vars == <<phase, remote, socket, socketHandler, disposed, srtpSession,
          listeners, emitted, closeCalls, disposeCalls, hungUp, replaced, lastOp>>

(***************************************************************************)
(* Bounds                                                                  *)
(***************************************************************************)
\* notifyHandlers of transfer() calls registered on the softphone at once
MaxTransfers == 2
\* direct calls of dispose(), per session (SpecDispose only)
MaxDispose == 2

\* repeated startLocalServices() calls: teardown listeners of a session at once,
\* and teardowns of a session after which it is started again
MaxStarts == 2

Sessions == {"A", "B"}

\* the session whose media path is exercised (key, send, sendDTMF, streamAudio,
\* inbound datagrams) and on which dispose() is called directly; the other is a
\* concurrent call on the same softphone.  These calls touch nothing outside the
\* session they are made on
Driven == {"A"}

(***************************************************************************)
(* Strings: the JavaScript string operations the code uses                 *)
(***************************************************************************)
\* String.prototype.startsWith
StartsWith(str, prefix) ==
  /\ Len(str) >= Len(prefix)
  /\ SubSeq(str, 1, Len(prefix)) = prefix

\* String.prototype.endsWith
EndsWith(str, suffix) ==
  /\ Len(str) >= Len(suffix)
  /\ SubSeq(str, Len(str) - Len(suffix) + 1, Len(str)) = suffix

Occurrences(seq, x) == Cardinality({i \in 1..Len(seq) : seq[i] = x})

\* U+00A0 NO-BREAK SPACE
NBSP == " "

\* U+1680 OGHAM SPACE MARK, of category Zs
OghamSpace == " "

\* U+FEFF ZERO WIDTH NO-BREAK SPACE
BOM == "﻿"

\* U+000B LINE TABULATION (VT)
VT == ""

\* WhiteSpace and LineTerminator characters, which trim() removes.  U+2028,
\* U+2029 and the rest of category Zs (U+2000 to U+200A, U+202F, U+205F, U+3000)
\* cannot be written in a string here and occur in no input
IsSpace(c) == c \in {" ", "\t", "\r", "\n", "\f", VT, NBSP, OghamSpace, BOM}

RECURSIVE TrimStart(_)
TrimStart(str) ==
  IF Len(str) > 0 /\ IsSpace(SubSeq(str, 1, 1))
  THEN TrimStart(SubSeq(str, 2, Len(str)))
  ELSE str

RECURSIVE TrimEnd(_)
TrimEnd(str) ==
  IF Len(str) > 0 /\ IsSpace(SubSeq(str, Len(str), Len(str)))
  THEN TrimEnd(SubSeq(str, 1, Len(str) - 1))
  ELSE str

\* String.prototype.trim
Trim(str) == TrimEnd(TrimStart(str))

\* index of the first occurrence of needle in str at or after i, 0 if none
RECURSIVE IndexFrom(_, _, _)
IndexFrom(str, needle, i) ==
  IF i + Len(needle) - 1 > Len(str) THEN 0
  ELSE IF SubSeq(str, i, i + Len(needle) - 1) = needle THEN i
  ELSE IndexFrom(str, needle, i + 1)

\* the longest run of characters of set cs that starts at position i of str
RECURSIVE RunOf(_, _, _)
RunOf(str, cs, i) ==
  IF i <= Len(str) /\ SubSeq(str, i, i) \in cs
  THEN SubSeq(str, i, i) \o RunOf(str, cs, i + 1)
  ELSE ""

Digits == {"0", "1", "2", "3", "4", "5", "6", "7", "8", "9"}


\* parseInt(str, 10) of a string of decimal digits
DigitValue(c) ==
  CASE c = "0" -> 0 [] c = "1" -> 1 [] c = "2" -> 2 [] c = "3" -> 3 [] c = "4" -> 4
    [] c = "5" -> 5 [] c = "6" -> 6 [] c = "7" -> 7 [] c = "8" -> 8 [] c = "9" -> 9

RECURSIVE ParseInt(_)
ParseInt(str) ==
  IF Len(str) = 0 THEN 0
  ELSE 10 * ParseInt(SubSeq(str, 1, Len(str) - 1)) + DigitValue(SubSeq(str, Len(str), Len(str)))

\* body.match(/c=IN IP4 ([\d.]+)/): group 1 of the first match, "" when match() is null
RECURSIVE MatchIP(_, _)
MatchIP(body, i) ==
  LET lit == "c=IN IP4 "
      j == IndexFrom(body, lit, i)
      run == RunOf(body, Digits \cup {"."}, j + Len(lit))
  IN IF j = 0 THEN ""
     ELSE IF run # "" THEN run
     ELSE MatchIP(body, j + 1)

\* body.match(/m=audio (\d+) /): group 1 of the first match, "" when match() is null
RECURSIVE MatchPort(_, _)
MatchPort(body, i) ==
  LET lit == "m=audio "
      j == IndexFrom(body, lit, i)
      run == RunOf(body, Digits, j + Len(lit))
      after == j + Len(lit) + Len(run)
  IN IF j = 0 THEN ""
     ELSE IF run # "" /\ after <= Len(body) /\ SubSeq(body, after, after) = " " THEN run
     ELSE MatchPort(body, j + 1)

(***************************************************************************)
(* Inputs                                                                  *)
(***************************************************************************)
\* session descriptions carried by the SIP message a session is built from
GoodOffer == "c=IN IP4 10.0.0.7\r\nm=audio 5004 RTP/SAVP 0 101\r\n"

Offers ==
  { GoodOffer,
    "c=IN IP4 10.0.0.7\r\n",
    "m=audio 5004 RTP/SAVP 0 101\r\n",
    "c=IN IP4 \r\nm=audio 5004\r\n",
    \* a declined media stream: well formed, port 0
    "c=IN IP4 10.0.0.7\r\nm=audio 0 RTP/SAVP 0 101\r\n",
    \* a port no UDP datagram can be sent to
    "c=IN IP4 10.0.0.7\r\nm=audio 70000 RTP/SAVP 0 101\r\n" }

\* sipMessage.headers['Call-ID'] of the message each session is built from
SessionCallId(s) == IF s = "A" THEN "call-A" ELSE "call-B"

\* Call-IDs of inbound messages
CallIds == {"call-A", "call-B"}

\* localPeer / remotePeer, set by the concrete session classes
LocalPeer(s) == IF s = "A" THEN "<sip:alice@sip.ringcentral.com>;tag=a1"
                ELSE "<sip:bob@sip.ringcentral.com>;tag=b1"
RemotePeer(s) == IF s = "A" THEN "<sip:16505550100@sip.ringcentral.com>;tag=a2"
                 ELSE "<sip:16505550199@sip.ringcentral.com>;tag=b2"

\* softphone.sipInfo.domain
HomeDomain == "sip.ringcentral.com"

\* transfer targets
Targets == {"18005551212"}

\* subject (first line), CSeq header and body of the inbound messages
MsgShapes ==
  { [subject |-> "SIP/2.0 486 Busy Here", cseq |-> "1 INVITE", body |-> ""],
    [subject |-> "BYE sip:a@b SIP/2.0", cseq |-> "7 BYE", body |-> ""],
    [subject |-> "SIP/2.0 200 OK", cseq |-> "2 BYE", body |-> ""],
    [subject |-> "NOTIFY sip:a@b SIP/2.0", cseq |-> "3 NOTIFY",
     body |-> "SIP/2.0 100 Trying\r\n"],
    [subject |-> "NOTIFY sip:a@b SIP/2.0", cseq |-> "4 NOTIFY",
     body |-> "\f" \o BOM \o "SIP/2.0 200 OK" \o VT \o "\r\n" \o NBSP],
    [subject |-> "MESSAGE sip:a@b SIP/2.0", cseq |-> "5 MESSAGE",
     body |-> "SIP/2.0 200 OK"] }

InboundMessages ==
  { [callId |-> c, subject |-> m.subject, cseq |-> m.cseq, body |-> m.body] :
      c \in CallIds, m \in MsgShapes }

NoMsg == [callId |-> "", subject |-> "", cseq |-> "", body |-> ""]

\* the calls of sendDTMF: character, time, whether the SRTP library throws on a
\* sequence number above 65535 (it matters at the second time only), and whether
\* DTMF.charToPayloads throws on a character that is no keypad character (it
\* matters for 'A' only)
DtmfCalls ==
  { [char |-> "#", now |-> 131069000, strict |-> TRUE, rejects |-> TRUE],
    [char |-> "#", now |-> 131071999, strict |-> TRUE, rejects |-> TRUE],
    [char |-> "#", now |-> 131071999, strict |-> FALSE, rejects |-> TRUE],
    [char |-> "A", now |-> 131069000, strict |-> TRUE, rejects |-> TRUE],
    [char |-> "A", now |-> 131069000, strict |-> TRUE, rejects |-> FALSE] }

\* what the application's listeners of 'busy' and 'disposed' do when they run:
\* nothing, or call send() on the session
AppListeners == {"none", "send"}

\* the same, told apart only for a message on which a session can emit an event
AppListenersOn(m) ==
  IF EndsWith(m.subject, "486 Busy Here") \/ EndsWith(m.cseq, " BYE")
  THEN AppListeners ELSE {"none"}

\* the audio handed to streamAudio: one frame
AudioInputs == {"one-frame"}

\* inbound datagrams, by what the SRTP session, the RTP parser, the DTMF codec
\* and the Opus decoder make of them
Datagrams == {"garbage", "dtmf-char", "dtmf-unknown", "audio", "audio-bad"}

(***************************************************************************)
(* Collaborators outside this file, kept opaque                            *)
(***************************************************************************)
\* utils.extractAddress(peer): an address taken from a peer string
ExtractAddress(peer) == "extractAddress(" \o peer \o ")"

\* the characters DTMF.charToPayloads is restricted to
PhoneChars == {"0", "1", "2", "3", "4", "5", "6", "7", "8", "9", "*", "#"}

\* DTMF.charToPayloads(char): the telephone-event payloads of one character,
\* ascending durations, the last one flagged end-of-event.  What it does with a
\* character outside PhoneChars is not given: it is a pure mapping whose input
\* is restricted, so it either throws or returns payloads all the same, and
\* sendDTMF is modelled with both
CharToPayloads(char) ==
  << [event |-> char, end |-> FALSE, duration |-> 160],
     [event |-> char, end |-> FALSE, duration |-> 320],
     [event |-> char, end |-> TRUE, duration |-> 480] >>

\* new ResponseMessage(inboundMessage, 200), sent by session s
Response200(s, m) ==
  [by |-> s, subject |-> "SIP/2.0 200 OK", callId |-> m.callId,
   from |-> "", to |-> "", referTo |-> "", referredBy |-> ""]

(***************************************************************************)
(* Outward effects of one call                                             *)
(***************************************************************************)
NoOut ==
  [threw |-> FALSE, sendCalls |-> 0, datagrams |-> <<>>, sip |-> <<>>,
   events |-> <<>>, decrypts |-> 0, headers |-> <<>>, steps |-> <<>>]

Op(op, s, arg, msg, out) ==
  [op |-> op, s |-> s, arg |-> arg, msg |-> msg, threw |-> out.threw,
   sendCalls |-> out.sendCalls, datagrams |-> out.datagrams, sip |-> out.sip,
   events |-> out.events, decrypts |-> out.decrypts, headers |-> out.headers,
   steps |-> out.steps]

\* get callId()
callId(s) == SessionCallId(s)

\* dgram's validatePort for send: 1..65535
ValidPort(port) == port \in 1..65535

\* socket.send(data, port, ip) on a dgram socket in state sock, after the effects
\* in rec (any record with threw, sendCalls and datagrams).  The port is checked
\* first (ERR_SOCKET_BAD_PORT), then that the socket is running
\* (ERR_SOCKET_DGRAM_NOT_RUNNING); while the bind is pending the datagram is put
\* on the socket's queue, which the socket's own 'listening' listener flushes
socketSend(sock, rem, data, encrypted, rec) ==
  IF ~ValidPort(rem.port) \/ sock = "closed"
  THEN [rec EXCEPT !.threw = TRUE, !.sendCalls = @ + 1]
  ELSE [rec EXCEPT !.sendCalls = @ + 1,
                   !.datagrams = Append(@, [data |-> data, encrypted |-> encrypted,
                                            ip |-> rem.ip, port |-> rem.port,
                                            queued |-> sock \in {"binding", "orphaned"}])]

\* send(data): this.socket.send(data, this.remotePort, this.remoteIP), after the
\* effects in out.  With this.socket undefined the property read throws before
\* any call
send(s, data, encrypted, out) ==
  IF socket[s] = "none" THEN [out EXCEPT !.threw = TRUE]
  ELSE socketSend(socket[s], remote[s], data, encrypted, out)

(***************************************************************************)
(* Listeners on the softphone's 'message' event                            *)
(***************************************************************************)
ByeListener(s) == [kind |-> "bye", s |-> s]
NotifyListener(s) == [kind |-> "notify", s |-> s]

\* softphone.off('message', handler), called by the handler itself while it runs.
\* Handlers of one kind and session are the same code; when one of them runs, those
\* registered before it have run on the same message and removed themselves or not
\* as it will, so the running handler is the first one still registered.
RECURSIVE Off(_, _)
Off(ls, l) ==
  IF ls = <<>> THEN <<>>
  ELSE IF Head(ls) = l THEN Tail(ls)
  ELSE <<Head(ls)>> \o Off(Tail(ls), l)

\* the objects a listener reads and writes, what has been sent so far, and what
\* the application's listeners on each session do
Objects(app) ==
  [listeners |-> listeners, disposed |-> disposed, socket |-> socket,
   socketHandler |-> socketHandler, emitted |-> emitted, closeCalls |-> closeCalls,
   sip |-> <<>>, threw |-> FALSE, steps |-> <<>>, sendCalls |-> 0, datagrams |-> <<>>,
   app |-> [s \in Sessions |-> app]]

\* one statement of a listener or of dispose(), run by session s
Step(s, step) == [s |-> s, step |-> step]

\* this.emit(event): the application's listeners run inside the call, seeing the
\* session as it is then; an exception of theirs leaves emit
emit(st, s, event) ==
  LET e == [st EXCEPT !.emitted[s] = Append(@, event),
                      !.steps = Append(@, Step(s, "emit " \o event))]
      seen == [e EXCEPT !.steps = Append(@, Step(s, IF e.disposed[s]
                                                     THEN "listener: disposed"
                                                     ELSE "listener: not disposed"))]
  IN IF st.app[s] = "none" THEN e
     ELSE IF e.socket[s] = "none" THEN [seen EXCEPT !.threw = TRUE]
     ELSE socketSend(e.socket[s], remote[s], "raw", FALSE, seen)

\* socket.close(): a socket whose bind is pending with datagrams queued puts the
\* close on the queue; dispose() has just removed the 'listening' listener that
\* flushes the queue, so that close never runs.  A closed socket throws
\* (ERR_SOCKET_DGRAM_NOT_RUNNING)
socketClose(sock, rem) ==
  CASE sock = "open" -> "closed"
    [] sock = "binding" -> IF ValidPort(rem.port) THEN "orphaned" ELSE "closed"
    [] OTHER -> sock

\* dispose() detaching the session's listeners before it emits 'disposed'
dispose_DetachFirst(st, s) ==
  LET s0 == [st EXCEPT !.disposed[s] = TRUE,
                       !.app[s] = "none",
                       !.steps = @ \o << Step(s, "disposed = true"),
                                         Step(s, "removeAllListeners") >>]
      s1 == emit(s0, s, "disposed")
      s3 == [s1 EXCEPT !.socketHandler[s] = FALSE,
                       !.closeCalls[s] = @ + 1,
                       !.socket[s] = socketClose(@, remote[s]),
                       !.steps = @ \o << Step(s, "socket.removeAllListeners"),
                                         Step(s, "socket.close") >>]
  IN IF s1.threw THEN s1
     ELSE IF st.socket[s] = "none" THEN [s1 EXCEPT !.threw = TRUE]
     ELSE IF st.socket[s] = "closed" THEN [s3 EXCEPT !.threw = TRUE]
     ELSE s3

\* dispose(): the flag, the notification, the session's listeners, then the socket's
\* listeners and the socket.  this.socket.removeAllListeners() throws when
\* this.socket is undefined, socket.close() when the socket is closed already
dispose(st, s) ==
  LET s0 == [st EXCEPT !.disposed[s] = TRUE,
                       !.steps = Append(@, Step(s, "disposed = true"))]
      s1 == emit(s0, s, "disposed")
      s2 == [s1 EXCEPT !.app[s] = "none",
                       !.steps = Append(@, Step(s, "removeAllListeners"))]
      s3 == [s2 EXCEPT !.socketHandler[s] = FALSE,
                       !.closeCalls[s] = @ + 1,
                       !.socket[s] = socketClose(@, remote[s]),
                       !.steps = @ \o << Step(s, "socket.removeAllListeners"),
                                         Step(s, "socket.close") >>]
  IN IF s1.threw THEN s1
     ELSE IF st.socket[s] = "none" THEN [s2 EXCEPT !.threw = TRUE]
     ELSE IF st.socket[s] = "closed" THEN [s3 EXCEPT !.threw = TRUE]
     ELSE s3

\* byeHandler calling dispose() before it emits 'busy'
byeHandler_DisposeFirst(st, s, m) ==
  IF m.callId # callId(s) THEN st
  ELSE IF EndsWith(m.subject, "486 Busy Here")
  THEN LET d == dispose([st EXCEPT !.listeners = Off(@, ByeListener(s))], s)
       IN [d EXCEPT !.emitted[s] = Append(@, "busy")]
  ELSE IF EndsWith(m.cseq, " BYE")
  THEN dispose([st EXCEPT !.listeners = Off(@, ByeListener(s))], s)
  ELSE st

\* byeHandler that stays registered after a teardown
byeHandler_KeepsListening(st, s, m) ==
  IF m.callId # callId(s) THEN st
  ELSE IF EndsWith(m.subject, "486 Busy Here")
  THEN dispose([st EXCEPT !.emitted[s] = Append(@, "busy")], s)
  ELSE IF EndsWith(m.cseq, " BYE")
  THEN dispose(st, s)
  ELSE st

\* byeHandler without the Call-ID filter
byeHandler_NoCallIdFilter(st, s, m) ==
  IF EndsWith(m.subject, "486 Busy Here")
  THEN dispose([st EXCEPT !.listeners = Off(@, ByeListener(s)),
                          !.emitted[s] = Append(@, "busy")], s)
  ELSE IF EndsWith(m.cseq, " BYE")
  THEN dispose([st EXCEPT !.listeners = Off(@, ByeListener(s))], s)
  ELSE st

\* byeHandler that tears down on a BYE request only, not on the response to a BYE
byeHandler_RequestsOnly(st, s, m) ==
  IF m.callId # callId(s) THEN st
  ELSE IF EndsWith(m.subject, "486 Busy Here")
  THEN dispose([st EXCEPT !.listeners = Off(@, ByeListener(s)),
                          !.emitted[s] = Append(@, "busy")], s)
  ELSE IF StartsWith(m.subject, "BYE ")
  THEN dispose([st EXCEPT !.listeners = Off(@, ByeListener(s))], s)
  ELSE st

\* byeHandler that tears down on every message of its dialog that is not a 486
byeHandler_AnyInDialog(st, s, m) ==
  IF m.callId # callId(s) THEN st
  ELSE IF EndsWith(m.subject, "486 Busy Here")
  THEN LET b == emit([st EXCEPT !.listeners = Off(@, ByeListener(s)),
                                !.steps = Append(@, Step(s, "off"))], s, "busy")
       IN IF b.threw THEN b ELSE dispose(b, s)
  ELSE dispose([st EXCEPT !.listeners = Off(@, ByeListener(s)),
                          !.steps = Append(@, Step(s, "off"))], s)

\* byeHandler of session s on inbound message m
byeHandler(st, s, m) ==
  IF m.callId # callId(s) THEN st
  ELSE IF EndsWith(m.subject, "486 Busy Here")
  THEN LET b == emit([st EXCEPT !.listeners = Off(@, ByeListener(s)),
                                !.steps = Append(@, Step(s, "off"))], s, "busy")
       IN IF b.threw THEN b ELSE dispose(b, s)
  ELSE IF EndsWith(m.cseq, " BYE")
  THEN dispose([st EXCEPT !.listeners = Off(@, ByeListener(s)),
                          !.steps = Append(@, Step(s, "off"))], s)
  ELSE st

\* notifyHandler that never deregisters itself
notifyHandler_NeverOff(st, s, m) ==
  IF ~StartsWith(m.subject, "NOTIFY ") THEN st
  ELSE [st EXCEPT !.sip = Append(@, Response200(s, m))]

\* notifyHandler of a transfer() of session s on inbound message m
notifyHandler(st, s, m) ==
  IF ~StartsWith(m.subject, "NOTIFY ") THEN st
  ELSE LET s1 == [st EXCEPT !.sip = Append(@, Response200(s, m))]
       IN IF Trim(m.body) = "SIP/2.0 200 OK"
          THEN [s1 EXCEPT !.listeners = Off(@, NotifyListener(s))]
          ELSE s1

\* softphone.emit('message', m): the listeners registered when the message arrives
\* run in registration order; an exception leaving one of them ends the dispatch
RECURSIVE RunListeners(_, _, _, _)
RunListeners(ls, i, st, m) ==
  IF i > Len(ls) \/ st.threw THEN st
  ELSE RunListeners(ls, i + 1,
                    IF ls[i].kind = "bye" THEN byeHandler(st, ls[i].s, m)
                    ELSE notifyHandler(st, ls[i].s, m),
                    m)

(***************************************************************************)
(* Initial states                                                          *)
(***************************************************************************)
\* before any session is constructed
InitNone ==
  /\ phase = [s \in Sessions |-> "none"]
  /\ remote = [s \in Sessions |-> [ip |-> "", port |-> 0]]
  /\ socket = [s \in Sessions |-> "none"]
  /\ socketHandler = [s \in Sessions |-> FALSE]
  /\ disposed = [s \in Sessions |-> FALSE]
  /\ srtpSession = [s \in Sessions |-> "undefined"]
  /\ listeners = <<>>
  /\ emitted = [s \in Sessions |-> <<>>]
  /\ closeCalls = [s \in Sessions |-> 0]
  /\ disposeCalls = [s \in Sessions |-> 0]
  /\ hungUp = [s \in Sessions |-> FALSE]
  /\ replaced = [s \in Sessions |-> 0]
  /\ lastOp = Op("init", "-", "", NoMsg, NoOut)

\* both sessions constructed from a well-formed offer
Init ==
  /\ phase = [s \in Sessions |-> "constructed"]
  /\ remote = [s \in Sessions |->
                 [ip |-> MatchIP(GoodOffer, 1), port |-> ParseInt(MatchPort(GoodOffer, 1))]]
  /\ socket = [s \in Sessions |-> "none"]
  /\ socketHandler = [s \in Sessions |-> FALSE]
  /\ disposed = [s \in Sessions |-> FALSE]
  /\ srtpSession = [s \in Sessions |-> "undefined"]
  /\ listeners = <<>>
  /\ emitted = [s \in Sessions |-> <<>>]
  /\ closeCalls = [s \in Sessions |-> 0]
  /\ disposeCalls = [s \in Sessions |-> 0]
  /\ hungUp = [s \in Sessions |-> FALSE]
  /\ replaced = [s \in Sessions |-> 0]
  /\ lastOp = Op("new", "-", "", NoMsg, NoOut)

(***************************************************************************)
(* Actions                                                                 *)
(***************************************************************************)
\* a constructor that falls back to port 0 and an empty address when a line is absent
Construct_Defaults(s, body) ==
  /\ phase[s] = "none"
  /\ phase' = [phase EXCEPT ![s] = "constructed"]
  /\ remote' = [remote EXCEPT ![s] = [ip |-> MatchIP(body, 1),
                                      port |-> ParseInt(MatchPort(body, 1))]]
  /\ lastOp' = Op("new", s, body, NoMsg, NoOut)
  /\ UNCHANGED <<socket, socketHandler, disposed, srtpSession, listeners, emitted,
                 closeCalls, disposeCalls, replaced, hungUp>>

\* new CallSession(softphone, sipMessage) with sipMessage.body = body:
\* match(...)![1] throws when the line is absent, and no session exists
Construct(s, body) ==
  /\ phase[s] = "none"
  /\ LET ip == MatchIP(body, 1)
         port == MatchPort(body, 1)
     IN IF ip = "" \/ port = ""
        THEN /\ lastOp' = Op("new", s, body, NoMsg, [NoOut EXCEPT !.threw = TRUE])
             /\ UNCHANGED <<phase, remote>>
        ELSE /\ phase' = [phase EXCEPT ![s] = "constructed"]
             /\ remote' = [remote EXCEPT ![s] = [ip |-> ip, port |-> ParseInt(port)]]
             /\ lastOp' = Op("new", s, body, NoMsg, NoOut)
  /\ UNCHANGED <<socket, socketHandler, disposed, srtpSession, listeners, emitted,
                 closeCalls, disposeCalls, replaced, hungUp>>

\* a key setter that also marks the session as not disposed
SetRemoteKey_Revives(s) ==
  /\ phase[s] # "none"
  /\ srtpSession' = [srtpSession EXCEPT ![s] = "set"]
  /\ disposed' = [disposed EXCEPT ![s] = FALSE]
  /\ lastOp' = Op("remoteKey", s, "", NoMsg, NoOut)
  /\ UNCHANGED <<phase, remote, socket, socketHandler, listeners, emitted,
                 closeCalls, disposeCalls, replaced, hungUp>>

\* set remoteKey(key)
SetRemoteKey(s) ==
  /\ phase[s] # "none"
  /\ srtpSession' = [srtpSession EXCEPT ![s] = "set"]
  /\ lastOp' = Op("remoteKey", s, "", NoMsg, NoOut)
  /\ UNCHANGED <<phase, remote, socket, socketHandler, disposed, listeners, emitted,
                 closeCalls, disposeCalls, replaced, hungUp>>

\* what a listener or dispose() has done to the outside, as effects of the call
OutOf(st) ==
  [NoOut EXCEPT !.threw = st.threw, !.sip = st.sip, !.steps = st.steps,
                !.sendCalls = st.sendCalls, !.datagrams = st.datagrams]

\* startLocalServices(): the socket is created and gets its 'message' listener,
\* bind() starts, this.send('hello') is queued behind the bind, and byeHandler is
\* registered.  When send throws (remote port 0 or above 65535) the call ends
\* there, without byeHandler.  The method does not look at what an earlier call
\* has done: the new socket takes the place of the one in this.socket, which
\* stays bound, and one more byeHandler is registered
startLocalServices(s) ==
  /\ socket' = [socket EXCEPT ![s] = "binding"]
  /\ socketHandler' = [socketHandler EXCEPT ![s] = TRUE]
  /\ \E out \in {socketSend("binding", remote[s], "hello", FALSE, NoOut)} :
        /\ lastOp' = Op("startLocalServices", s, "", NoMsg, out)
        /\ IF out.threw
           THEN /\ phase' = [phase EXCEPT ![s] = "failed"]
                /\ UNCHANGED listeners
           ELSE /\ phase' = [phase EXCEPT ![s] = "started"]
                /\ listeners' = Append(listeners, ByeListener(s))
  /\ replaced' = [replaced EXCEPT ![s] =
                    IF socket[s] \in {"binding", "open"} /\ socketHandler[s]
                    THEN @ + 1 ELSE @]
  /\ UNCHANGED <<remote, disposed, srtpSession, emitted, closeCalls, disposeCalls,
                 hungUp>>

\* The callers of startLocalServices() are the concrete session classes, which
\* call it on the one transition of a call to Answered (section 4.4 of the
\* specification): on a session that exists and has not been started before
StartedOnce(s) == phase[s] = "constructed"

\* startLocalServices() as the session classes call it
StartLocalServices(s) ==
  /\ StartedOnce(s)
  /\ startLocalServices(s)

\* startLocalServices() called again, which the method does not refuse, be the
\* session in a call or disposed.  The calls are bounded: no more than MaxStarts
\* teardown listeners at once, none after MaxStarts calls of socket.close(), and
\* no more than MaxStarts sockets replaced
StartLocalServicesAgain(s) ==
  /\ phase[s] \in {"started", "failed"}
  /\ Occurrences(listeners, ByeListener(s)) < MaxStarts
  /\ closeCalls[s] < MaxStarts
  /\ replaced[s] < MaxStarts
  /\ startLocalServices(s)

\* the bind started by startLocalServices completes, on a later tick: the socket
\* emits 'listening', and its own listener of that event, if dispose() has not
\* removed it, sends what is queued
BindCompletes(s) ==
  /\ socket[s] \in {"binding", "orphaned"}
  /\ socket' = [socket EXCEPT ![s] = IF @ = "binding" THEN "open" ELSE "leaked"]
  /\ lastOp' = Op("listening", s, "", NoMsg, NoOut)
  /\ UNCHANGED <<phase, remote, socketHandler, disposed, srtpSession, listeners,
                 emitted, closeCalls, disposeCalls, replaced, hungUp>>

\* the REFER request of transfer(target)
ReferRequest(s, target) ==
  [by |-> s,
   subject |-> "REFER sip:" \o ExtractAddress(RemotePeer(s)) \o " SIP/2.0",
   callId |-> callId(s), from |-> LocalPeer(s), to |-> RemotePeer(s),
   referTo |-> "sip:" \o target \o "@sip.ringcentral.com",
   referredBy |-> "<" \o ExtractAddress(LocalPeer(s)) \o ">"]

\* transfer(target)
Transfer(s, target) ==
  /\ phase[s] # "none"
  /\ Cardinality({i \in 1..Len(listeners) : listeners[i].kind = "notify"}) < MaxTransfers
  /\ listeners' = Append(listeners, NotifyListener(s))
  /\ lastOp' = Op("transfer", s, target, NoMsg,
                  [NoOut EXCEPT !.sip = <<ReferRequest(s, target)>>])
  /\ UNCHANGED <<phase, remote, socket, socketHandler, disposed, srtpSession, emitted,
                 closeCalls, disposeCalls, replaced, hungUp>>

\* the BYE request of hangup()
ByeRequest(s) ==
  [by |-> s, subject |-> "BYE sip:" \o HomeDomain \o " SIP/2.0",
   callId |-> callId(s), from |-> LocalPeer(s), to |-> RemotePeer(s),
   referTo |-> "", referredBy |-> ""]

\* hangup() that disposes the session as soon as the BYE is sent
Hangup_Disposes(s) ==
  /\ phase[s] # "none"
  /\ \E st \in {dispose(Objects("none"), s)} :
        /\ disposed' = st.disposed
        /\ socket' = st.socket
        /\ socketHandler' = st.socketHandler
        /\ emitted' = st.emitted
        /\ closeCalls' = st.closeCalls
        /\ lastOp' = Op("hangup", s, "", NoMsg,
                        [OutOf(st) EXCEPT !.sip = <<ByeRequest(s)>>])
  /\ UNCHANGED <<phase, remote, srtpSession, listeners, disposeCalls, replaced, hungUp>>

\* hangup()
hangup(s) ==
  /\ phase[s] # "none"
  /\ lastOp' = Op("hangup", s, "", NoMsg, [NoOut EXCEPT !.sip = <<ByeRequest(s)>>])
  /\ UNCHANGED <<phase, remote, socket, socketHandler, disposed, srtpSession, listeners,
                 emitted, closeCalls, disposeCalls, replaced>>

\* a call of hangup()
Hangup(s) ==
  /\ hangup(s)
  /\ UNCHANGED hungUp

\* a call of hangup(), remembered in hungUp
HangupRecorded(s) ==
  /\ hangup(s)
  /\ hungUp' = [hungUp EXCEPT ![s] = TRUE]

\* the RTP header of sendDTMF as it is when a packet is built from it
RtpHeader(sequenceNumber, timestamp) ==
  [payloadType |-> 101, sequenceNumber |-> sequenceNumber, timestamp |-> timestamp]

\* the loop of sendDTMF sending each payload as it is, without the SRTP session
RECURSIVE DtmfLoop_NoKeyCheck(_, _, _, _, _, _, _)
DtmfLoop_NoKeyCheck(s, payloads, i, sequenceNumber, timestamp, strict, out) ==
  IF i > Len(payloads) \/ out.threw THEN out
  ELSE DtmfLoop_NoKeyCheck(s, payloads, i + 1, sequenceNumber + 1, timestamp, strict,
         send(s, "rtp", srtpSession[s] = "set",
              [out EXCEPT !.headers = Append(@, RtpHeader(sequenceNumber, timestamp))]))

\* the loop of sendDTMF over the payloads from index i on:
\* rtpHeader.sequenceNumber = sequenceNumber++, build the packet, encrypt, send.
\* this.srtpSession.encrypt throws when srtpSession is undefined; given a
\* sequence number that does not fit 16 bits, the SRTP library either throws
\* (strict) or writes its low 16 bits
RECURSIVE DtmfLoop(_, _, _, _, _, _, _)
DtmfLoop(s, payloads, i, sequenceNumber, timestamp, strict, out) ==
  IF i > Len(payloads) \/ out.threw THEN out
  ELSE LET built == [out EXCEPT !.headers =
                       Append(@, RtpHeader(sequenceNumber, timestamp))]
       IN IF srtpSession[s] = "undefined" THEN [built EXCEPT !.threw = TRUE]
          ELSE IF strict /\ sequenceNumber > 65535 THEN [built EXCEPT !.threw = TRUE]
          ELSE DtmfLoop(s, payloads, i + 1, sequenceNumber + 1, timestamp, strict,
                        send(s, "rtp", TRUE, built))

\* sendDTMF(char) at time now: the header is built first, DTMF.charToPayloads(char)
\* is evaluated when the loop starts.  The method has no test of char of its own
\* (the type of its parameter is gone at run time): a character outside
\* PhoneChars ends the call only when charToPayloads throws on it (rejects)
SendDTMF(s, char, now, strict, rejects) ==
  /\ phase[s] # "none"
  /\ LET timestamp == now \div 1000
         sequenceNumber == timestamp % 65536
     IN lastOp' = Op("sendDTMF", s, char, NoMsg,
                     IF char \notin PhoneChars /\ rejects
                     THEN [NoOut EXCEPT !.threw = TRUE]
                     ELSE DtmfLoop(s, CharToPayloads(char), 1, sequenceNumber,
                                   timestamp, strict, NoOut))
  /\ UNCHANGED <<phase, remote, socket, socketHandler, disposed, srtpSession, listeners,
                 emitted, closeCalls, disposeCalls, replaced, hungUp>>

\* send(data), called with data of the caller's own
Send(s) ==
  /\ phase[s] # "none"
  /\ lastOp' = Op("send", s, "", NoMsg, send(s, "raw", FALSE, NoOut))
  /\ UNCHANGED <<phase, remote, socket, socketHandler, disposed, srtpSession, listeners,
                 emitted, closeCalls, disposeCalls, replaced, hungUp>>

\* Streamer.start() of a streamer built on session s: the first frame goes out
\* through the session, encrypted with its SRTP session; nothing is sent for a
\* disposed session or an empty input
StreamerStart(s, input, out) ==
  IF input = "empty" \/ disposed[s] THEN out
  ELSE IF srtpSession[s] = "undefined" THEN [out EXCEPT !.threw = TRUE]
  ELSE send(s, "rtp-audio", TRUE, out)

\* streamAudio(input): new Streamer(this, input), streamer.start()
StreamAudio(s, input) ==
  /\ phase[s] # "none"
  /\ lastOp' = Op("streamAudio", s, input, NoMsg, StreamerStart(s, input, NoOut))
  /\ UNCHANGED <<phase, remote, socket, socketHandler, disposed, srtpSession, listeners,
                 emitted, closeCalls, disposeCalls, replaced, hungUp>>

\* an inbound SIP message m on the signaling channel: softphone.emit('message', m),
\* with the application's listeners on the sessions doing app
Deliver(m, app) ==
  \E st \in {RunListeners(listeners, 1, Objects(app), m)} :
     /\ listeners' = st.listeners
     /\ disposed' = st.disposed
     /\ socket' = st.socket
     /\ socketHandler' = st.socketHandler
     /\ emitted' = st.emitted
     /\ closeCalls' = st.closeCalls
     /\ lastOp' = Op("message", "-", "", m, OutOf(st))
     /\ UNCHANGED <<phase, remote, srtpSession, disposeCalls, replaced, hungUp>>

\* what the socket's 'message' listener does with datagram d
OnDatagram(s, d) ==
  IF srtpSession[s] = "undefined" THEN [NoOut EXCEPT !.threw = TRUE]
  ELSE IF d = "garbage" THEN [NoOut EXCEPT !.threw = TRUE, !.decrypts = 1]
  ELSE LET got == [NoOut EXCEPT !.decrypts = 1] IN
       CASE d = "dtmf-char" ->
              [got EXCEPT !.events = <<"rtpPacket", "dtmfPacket", "dtmf">>]
         [] d = "dtmf-unknown" ->
              [got EXCEPT !.events = <<"rtpPacket", "dtmfPacket">>]
         [] d = "audio" ->
              [got EXCEPT !.events = <<"rtpPacket", "audioPacket">>]
         [] d = "audio-bad" ->
              [got EXCEPT !.events = <<"rtpPacket">>, !.threw = TRUE]

\* an inbound datagram d on the session's socket
Datagram(s, d) ==
  /\ socket[s] = "open"
  /\ socketHandler[s]
  /\ lastOp' = Op("datagram", s, d, NoMsg, OnDatagram(s, d))
  /\ UNCHANGED <<phase, remote, socket, socketHandler, disposed, srtpSession, listeners,
                 emitted, closeCalls, disposeCalls, replaced, hungUp>>

\* an inbound datagram d on a socket of session s that a repeated
\* startLocalServices() has replaced: the socket is bound still (its bind has
\* completed by the time a datagram can reach it) and its 'message' listener,
\* which reads the session's fields, runs, whatever has become of this.socket
\* and of the session since
DatagramOnReplaced(s, d) ==
  /\ replaced[s] > 0
  /\ lastOp' = Op("datagram", s, d, NoMsg, OnDatagram(s, d))
  /\ UNCHANGED <<phase, remote, socket, socketHandler, disposed, srtpSession, listeners,
                 emitted, closeCalls, disposeCalls, hungUp, replaced>>

\* dispose() called on its own (it is private: only code of the class can), with
\* the application's listeners on the session doing app
Dispose(s, app) ==
  /\ phase[s] # "none"
  /\ disposeCalls[s] < MaxDispose
  /\ disposeCalls' = [disposeCalls EXCEPT ![s] = @ + 1]
  /\ \E st \in {dispose(Objects(app), s)} :
        /\ disposed' = st.disposed
        /\ socket' = st.socket
        /\ socketHandler' = st.socketHandler
        /\ emitted' = st.emitted
        /\ closeCalls' = st.closeCalls
        /\ lastOp' = Op("dispose", s, "", NoMsg, OutOf(st))
  /\ UNCHANGED <<phase, remote, srtpSession, listeners, hungUp, replaced>>

Next ==
  \/ \E s \in Driven : SetRemoteKey(s)
  \/ \E s \in Sessions : StartLocalServices(s)
  \/ \E s \in Sessions : BindCompletes(s)
  \/ \E s \in Sessions, target \in Targets : Transfer(s, target)
  \/ \E s \in Sessions : Hangup(s)
  \/ \E s \in Driven, c \in DtmfCalls : SendDTMF(s, c.char, c.now, c.strict, c.rejects)
  \/ \E s \in Driven : Send(s)
  \/ \E s \in Driven, input \in AudioInputs : StreamAudio(s, input)
  \/ \E m \in InboundMessages : \E app \in AppListenersOn(m) : Deliver(m, app)
  \/ \E s \in Driven, d \in Datagrams : Datagram(s, d)

\* the session under its public methods and the network
Spec == Init /\ [][Next]_vars

NextDispose ==
  \/ \E s \in Sessions : StartLocalServices(s)
  \/ \E s \in Sessions : BindCompletes(s)
  \/ \E m \in InboundMessages : \E app \in AppListenersOn(m) : Deliver(m, app)
  \/ \E s \in Driven, app \in AppListeners : Dispose(s, app)

\* the teardown paths alone, with dispose() also called directly
SpecDispose == Init /\ [][NextDispose]_vars

NextConstruct ==
  \/ \E s \in Sessions, body \in Offers : Construct(s, body)
  \/ \E s \in Sessions : StartLocalServices(s)
  \/ \E s \in Driven : StartLocalServicesAgain(s)
  \/ \E s \in Driven : SetRemoteKey(s)
  \/ \E s \in Driven, d \in Datagrams : DatagramOnReplaced(s, d)
  \/ \E s \in Sessions : BindCompletes(s)
  \/ \E s \in Driven : Send(s)
  \/ \E s \in Driven : Hangup(s)
  \/ \E m \in InboundMessages : Deliver(m, "none")

\* construction from any offer, and the first steps of the sessions built
SpecConstruct == InitNone /\ [][NextConstruct]_vars

NextHangup ==
  \/ \E s \in Sessions : StartLocalServices(s)
  \/ \E s \in Sessions : BindCompletes(s)
  \/ \E s \in Sessions : HangupRecorded(s)
  \/ \E m \in InboundMessages : \E app \in AppListenersOn(m) : Deliver(m, app)

\* calls in progress that the application hangs up, and the signaling traffic
SpecHangup == Init /\ [][NextHangup]_vars

(***************************************************************************)
(* Vocabulary of the properties                                            *)
(***************************************************************************)
Range(seq) == {seq[i] : i \in 1..Len(seq)}

\* a 486 Busy Here response
IsBusy(m) == EndsWith(m.subject, "486 Busy Here")

\* a message that triggers teardown in the session it belongs to
IsTeardown(m) == IsBusy(m) \/ EndsWith(m.cseq, " BYE")

IsNotify(m) == StartsWith(m.subject, "NOTIFY ")

IsFinalNotify(m) == IsNotify(m) /\ Trim(m.body) = "SIP/2.0 200 OK"

\* the 200 responses session s sent during the last call
RepliesBy(op, s) ==
  Cardinality({i \in 1..Len(op.sip) :
                 op.sip[i].by = s /\ op.sip[i].subject = "SIP/2.0 200 OK"})

\* the BYE requests session s sent during the last call
ByesBy(op, s) ==
  Cardinality({i \in 1..Len(op.sip) :
                 op.sip[i].by = s /\ StartsWith(op.sip[i].subject, "BYE ")})

\* session s has its local services started and is not torn down
Live(s) == phase[s] = "started" /\ ~disposed[s] /\ ByeListener(s) \in Range(listeners)

(***************************************************************************)
(* C1: a started, live session that receives a message with its own        *)
(* Call-ID and a subject ending in "486 Busy Here" has emitted 'busy' once  *)
(* and then 'disposed' once, nothing else and never more afterwards, and    *)
(* sends no BYE request during that delivery.                               *)
(***************************************************************************)
C1_BusyStep(s) ==
  /\ Live(s)
  /\ lastOp'.op = "message"
  /\ lastOp'.msg.callId = callId(s)
  /\ IsBusy(lastOp'.msg)

\* C1: such a delivery takes the session from no event emitted to 'busy' followed
\* by 'disposed', with no BYE sent by the session, and nothing is emitted after
C1_BusyThenDisposedOnce ==
  [][\A s \in Sessions :
       /\ C1_BusyStep(s) =>
            /\ emitted[s] = <<>>
            /\ emitted'[s] = <<"busy", "disposed">>
            /\ ByesBy(lastOp', s) = 0
       /\ Occurrences(emitted[s], "busy") = 1 => emitted'[s] = <<"busy", "disposed">>
    ]_vars

C1_Witness ==
  /\ lastOp.op = "message"
  /\ lastOp.msg.callId = callId("A")
  /\ IsBusy(lastOp.msg)
  /\ emitted["A"] = <<"busy", "disposed">>
  /\ disposed["A"]

(***************************************************************************)
(* C2: when dispose() has been called twice on a session whose socket       *)
(* exists, the second call returns without an exception and socket.close()  *)
(* has been called exactly once.                                            *)
(***************************************************************************)
C2_DisposeIdempotent ==
  \A s \in Sessions :
    ( /\ lastOp.op = "dispose"
      /\ lastOp.s = s
      /\ disposeCalls[s] = 2
      /\ phase[s] = "started" )
    => /\ ~lastOp.threw
       /\ closeCalls[s] = 1

(***************************************************************************)
(* C3: whatever signaling messages arrive, a session emits 'disposed' at    *)
(* most once, and it has emitted it exactly once after any delivery of a    *)
(* teardown message (486 Busy Here, or CSeq ending in " BYE") with its      *)
(* Call-ID to the started session.                                          *)
(***************************************************************************)
C3_DisposedExactlyOnce ==
  [][\A s \in Sessions :
       /\ Occurrences(emitted'[s], "disposed") <= 1
       /\ Occurrences(emitted'[s], "disposed") >= Occurrences(emitted[s], "disposed")
       /\ ( /\ phase[s] = "started"
            /\ lastOp'.op = "message"
            /\ lastOp'.msg.callId = callId(s)
            /\ IsTeardown(lastOp'.msg) )
          => Occurrences(emitted'[s], "disposed") = 1
    ]_vars

\* a teardown message arrives for a session that an earlier one has torn down
C3_Witness ==
  /\ lastOp.op = "message"
  /\ lastOp.msg.callId = callId("A")
  /\ lastOp.msg.cseq = "7 BYE"
  /\ emitted["A"] = <<"busy", "disposed">>

(***************************************************************************)
(* C4: a call of send or sendDTMF on a session whose disposed flag is true  *)
(* does not reach socket.send.                                              *)
(***************************************************************************)
C4_NoSendAfterDisposed ==
  \A s \in Sessions :
    ( /\ lastOp.op \in {"send", "sendDTMF"}
      /\ lastOp.s = s
      /\ disposed[s] )
    => lastOp.sendCalls = 0

(***************************************************************************)
(* C5: a teardown message carrying session a's Call-ID leaves every other   *)
(* session b as it was: its disposed flag, the events it has emitted, its   *)
(* socket and its listeners, the teardown listener among them; b sends      *)
(* nothing.                                                                 *)
(***************************************************************************)
C5_OtherSessionUntouched ==
  [][\A a \in Sessions : \A b \in Sessions \ {a} :
       ( /\ lastOp'.op = "message"
         /\ lastOp'.msg.callId = callId(a)
         /\ IsTeardown(lastOp'.msg) )
       => /\ disposed'[b] = disposed[b]
          /\ emitted'[b] = emitted[b]
          /\ socket'[b] = socket[b]
          /\ socketHandler'[b] = socketHandler[b]
          /\ closeCalls'[b] = closeCalls[b]
          /\ Occurrences(listeners', ByeListener(b)) = Occurrences(listeners, ByeListener(b))
          /\ Occurrences(listeners', NotifyListener(b))
               = Occurrences(listeners, NotifyListener(b))
          /\ \A i \in 1..Len(lastOp'.sip) : lastOp'.sip[i].by # b
    ]_vars

\* A has just been torn down by its BYE while B is live
C5_Witness ==
  /\ lastOp.op = "message"
  /\ lastOp.msg.callId = callId("A")
  /\ IsTeardown(lastOp.msg)
  /\ disposed["A"]
  /\ socket["A"] = "closed"
  /\ Live("B")
  /\ socket["B"] = "open"
  /\ emitted["B"] = <<>>

(***************************************************************************)
(* C6: a NOTIFY that does not carry session s's Call-ID makes s send no     *)
(* 200 response and leaves s's transfer listeners registered.               *)
(***************************************************************************)
C6_NotifyFilteredByCallId ==
  [][\A s \in Sessions :
       ( /\ lastOp'.op = "message"
         /\ IsNotify(lastOp'.msg)
         /\ lastOp'.msg.callId # callId(s) )
       => /\ RepliesBy(lastOp', s) = 0
          /\ Occurrences(listeners', NotifyListener(s))
               = Occurrences(listeners, NotifyListener(s))
    ]_vars

(***************************************************************************)
(* C7: transfer(target) sends one REFER request, addressed with the remote  *)
(* peer and naming the target in Refer-To, and registers a listener.  Each  *)
(* registered transfer listener of a session answers an inbound NOTIFY with *)
(* one 200 response; it stays registered unless the trimmed body is         *)
(* "SIP/2.0 200 OK", and then it is deregistered, so that a later NOTIFY    *)
(* gets no response from it.  A message whose subject does not start with   *)
(* "NOTIFY " gets no response and leaves the transfer listeners as they     *)
(* are.                                                                     *)
(***************************************************************************)
C7_TransferStep(s) ==
  ( lastOp'.op = "transfer" /\ lastOp'.s = s )
  => /\ Len(lastOp'.sip) = 1
     /\ lastOp'.sip[1].by = s
     /\ lastOp'.sip[1].subject =
          "REFER sip:" \o ExtractAddress(RemotePeer(s)) \o " SIP/2.0"
     /\ lastOp'.sip[1].to = RemotePeer(s)
     /\ lastOp'.sip[1].callId = callId(s)
     /\ lastOp'.sip[1].referTo = "sip:" \o lastOp'.arg \o "@sip.ringcentral.com"
     /\ Occurrences(listeners', NotifyListener(s))
          = Occurrences(listeners, NotifyListener(s)) + 1

C7_MessageStep(s) ==
  lastOp'.op = "message"
  => LET n == Occurrences(listeners, NotifyListener(s))
         m == lastOp'.msg
     IN /\ IsNotify(m) => RepliesBy(lastOp', s) = n
        /\ IsNotify(m) /\ Trim(m.body) # "SIP/2.0 200 OK"
             => Occurrences(listeners', NotifyListener(s)) = n
        /\ IsFinalNotify(m) => Occurrences(listeners', NotifyListener(s)) = 0
        /\ ~IsNotify(m) => /\ RepliesBy(lastOp', s) = 0
                           /\ Occurrences(listeners', NotifyListener(s)) = n

\* C7: every step of every session follows the transfer protocol above
C7_TransferProtocol ==
  [][\A s \in Sessions : C7_TransferStep(s) /\ C7_MessageStep(s)]_vars

\* the final NOTIFY has been answered by A's transfer listener, which is gone
C7_Witness ==
  /\ lastOp.op = "message"
  /\ IsFinalNotify(lastOp.msg)
  /\ RepliesBy(lastOp, "A") = 1
  /\ NotifyListener("A") \notin Range(listeners)

(***************************************************************************)
(* C8: when a session becomes disposed, none of its transfer listeners is   *)
(* left on the signaling channel.                                           *)
(***************************************************************************)
C8_DisposeRemovesTransferListener ==
  [][\A s \in Sessions :
       ( ~disposed[s] /\ disposed'[s] ) => NotifyListener(s) \notin Range(listeners')
    ]_vars

(***************************************************************************)
(* C9: hangup() sends one BYE request, to the home server and with the      *)
(* session's Call-ID, and changes nothing of the session: not the disposed  *)
(* flag, the socket, its listeners or the listeners on the signaling        *)
(* channel.  The disposed flag changes only in the delivery of a teardown   *)
(* message with the session's Call-ID.                                      *)
(***************************************************************************)
C9_HangupOnlySendsBye ==
  [][\A s \in Sessions :
       /\ ( lastOp'.op = "hangup" /\ lastOp'.s = s )
          => /\ Len(lastOp'.sip) = 1
             /\ lastOp'.sip[1].by = s
             /\ lastOp'.sip[1].subject = "BYE sip:" \o HomeDomain \o " SIP/2.0"
             /\ lastOp'.sip[1].callId = callId(s)
             /\ ~lastOp'.threw
             /\ lastOp'.sendCalls = 0
             /\ UNCHANGED <<phase, remote, socket, socketHandler, disposed, srtpSession,
                            listeners, emitted, closeCalls>>
       /\ disposed'[s] # disposed[s]
          => /\ lastOp'.op = "message"
             /\ lastOp'.msg.callId = callId(s)
             /\ IsTeardown(lastOp'.msg)
    ]_vars

\* hangup() on a live session
C9_Witness ==
  /\ lastOp.op = "hangup"
  /\ lastOp.s = "A"
  /\ Live("A")
  /\ socket["A"] = "open"

(***************************************************************************)
(* C10: while a session's remote key is not set, no encrypted packet is     *)
(* sent, no inbound datagram is decrypted and sendDTMF fails before any     *)
(* socket.send.                                                             *)
(***************************************************************************)
C10_NothingEncryptedBeforeKey(s) ==
  ( lastOp.s = s /\ srtpSession[s] = "undefined" )
  => /\ \A i \in 1..Len(lastOp.datagrams) : ~lastOp.datagrams[i].encrypted
     /\ lastOp.decrypts = 0
     /\ lastOp.events = <<>>
     /\ lastOp.op = "sendDTMF" => lastOp.threw /\ lastOp.sendCalls = 0

\* C10 as stated: and every datagram sent while the key is not set is the
\* "hello" of startLocalServices
C10_OnlyHelloBeforeKey ==
  \A s \in Sessions :
    /\ C10_NothingEncryptedBeforeKey(s)
    /\ ( lastOp.s = s /\ srtpSession[s] = "undefined" )
       => \A i \in 1..Len(lastOp.datagrams) :
            /\ lastOp.op = "startLocalServices"
            /\ lastOp.datagrams[i].data = "hello"

\* C10 as amended: and every datagram sent while the key is not set is the
\* "hello" of startLocalServices or data a caller passed to send() itself
C10_OnlyHelloOrCallerDataBeforeKey ==
  \A s \in Sessions :
    /\ C10_NothingEncryptedBeforeKey(s)
    /\ ( lastOp.s = s /\ srtpSession[s] = "undefined" )
       => \A i \in 1..Len(lastOp.datagrams) :
            \/ lastOp.op = "startLocalServices" /\ lastOp.datagrams[i].data = "hello"
            \/ lastOp.op = "send" /\ lastOp.datagrams[i].data = "raw"

\* sendDTMF on an open socket before the key is set
C10_Witness ==
  /\ lastOp.op = "sendDTMF"
  /\ lastOp.s = "A"
  /\ socket["A"] = "open"
  /\ srtpSession["A"] = "undefined"
  /\ lastOp.threw

(***************************************************************************)
(* C11: an inbound datagram that the SRTP session cannot decrypt or the RTP *)
(* parser cannot read is dropped inside the socket's listener: no packet    *)
(* event is emitted, no exception leaves the listener, and the session is   *)
(* neither disposed nor is its socket closed; a well-formed datagram before *)
(* or after it is emitted as 'audioPacket' or 'dtmfPacket'.                 *)
(***************************************************************************)
C11_FailureIsolated ==
  \A s \in Sessions :
    ( /\ lastOp.op = "datagram"
      /\ lastOp.s = s
      /\ srtpSession[s] = "set" )
    => /\ lastOp.arg = "garbage"
            => /\ lastOp.events = <<>>
               /\ ~lastOp.threw
               /\ ~disposed[s]
               /\ socket[s] = "open"
               /\ socketHandler[s]
       /\ lastOp.arg = "audio" => "audioPacket" \in Range(lastOp.events)
       /\ lastOp.arg \in {"dtmf-char", "dtmf-unknown"}
            => "dtmfPacket" \in Range(lastOp.events)

(***************************************************************************)
(* C12: constructing a session from a SIP message whose body has no         *)
(* "m=audio <port> " line, or no "c=IN IP4 <ip>" line, throws in the        *)
(* constructor: the session does not exist afterwards, it has no socket,    *)
(* no listener on its socket or on the signaling channel, and nothing has   *)
(* been sent.                                                               *)
(***************************************************************************)
\* body contains "m=audio ", one or more digits and a space
HasAudioLine(body) ==
  \E i \in 1..Len(body) : \E n \in 1..Len(body) :
     /\ i + 8 + n <= Len(body)
     /\ SubSeq(body, i, i + 7) = "m=audio "
     /\ \A k \in (i + 8)..(i + 7 + n) : SubSeq(body, k, k) \in Digits
     /\ SubSeq(body, i + 8 + n, i + 8 + n) = " "

\* body contains "c=IN IP4 " and at least one digit or dot
HasConnectionLine(body) ==
  \E i \in 1..Len(body) :
     /\ i + 9 <= Len(body)
     /\ SubSeq(body, i, i + 8) = "c=IN IP4 "
     /\ SubSeq(body, i + 9, i + 9) \in Digits \cup {"."}

C12_ConstructionFailsFirst ==
  \A s \in Sessions :
    ( /\ lastOp.op = "new"
      /\ lastOp.s = s
      /\ ~(HasAudioLine(lastOp.arg) /\ HasConnectionLine(lastOp.arg)) )
    => /\ lastOp.threw
       /\ phase[s] = "none"
       /\ socket[s] = "none"
       /\ ~socketHandler[s]
       /\ \A i \in 1..Len(listeners) : listeners[i].s # s
       /\ lastOp.sendCalls = 0
       /\ lastOp.sip = <<>>

\* the constructor has just thrown on an offer without a media line, while the
\* other session is up
C12_Witness ==
  /\ lastOp.op = "new"
  /\ lastOp.s = "A"
  /\ ~HasAudioLine(lastOp.arg)
  /\ HasConnectionLine(lastOp.arg)
  /\ lastOp.threw
  /\ phase["A"] = "none"
  /\ phase["B"] = "started"

(***************************************************************************)
(* C13: the disposed flag of a session is false at first and, once true,    *)
(* stays true: no method call, inbound message or inbound datagram sets it  *)
(* back to false.                                                           *)
(***************************************************************************)
C13_DisposedMonotonic ==
  /\ \A s \in Sessions : ~disposed[s]
  /\ [][\A s \in Sessions : disposed[s] => disposed'[s]]_vars

\* the key is set on a session that is already disposed
C13_Witness ==
  /\ disposed["A"]
  /\ lastOp.op = "remoteKey"
  /\ lastOp.s = "A"

(***************************************************************************)
(* C14: sendDTMF called with a character outside 0-9, * and # fails with    *)
(* an exception before socket.send is called: no datagram leaves the        *)
(* session.                                                                 *)
(***************************************************************************)
C14_InvalidCharRejected ==
  \A s \in Sessions :
    ( /\ lastOp.op = "sendDTMF"
      /\ lastOp.s = s
      /\ lastOp.arg \notin {"0", "1", "2", "3", "4", "5", "6", "7", "8", "9", "*", "#"} )
    => /\ lastOp.threw
       /\ lastOp.sendCalls = 0
       /\ lastOp.datagrams = <<>>

(***************************************************************************)
(* C19: whatever the time of the call, the RTP headers sendDTMF builds in   *)
(* one call carry sequence numbers that start at floor(now / 1000) mod      *)
(* 65536, go up by one per payload and all lie in 0..65535, with one        *)
(* timestamp for the whole burst.                                           *)
(***************************************************************************)
C19_SequenceNumbersFit16Bits ==
  lastOp.op = "sendDTMF"
  => \A i \in 1..Len(lastOp.headers) :
       /\ lastOp.headers[i].sequenceNumber \in 0..65535
       /\ lastOp.headers[1].sequenceNumber = lastOp.headers[1].timestamp % 65536
       /\ lastOp.headers[i].sequenceNumber = lastOp.headers[1].sequenceNumber + (i - 1)
       /\ lastOp.headers[i].timestamp = lastOp.headers[1].timestamp

(***************************************************************************)
(* C15: once hangup() has been called on a session in a call, the delivery  *)
(* of a message with the session's Call-ID and a CSeq ending in " BYE",     *)
(* be it the peer's BYE request or the response to the session's own BYE,   *)
(* disposes the session in that same delivery, the same way in both cases:  *)
(* the teardown listener is deregistered, 'disposed' is emitted once and    *)
(* socket.close() is called once.                                           *)
(***************************************************************************)
C15_ByeConfirmationDisposes ==
  [][\A s \in Sessions :
       ( /\ hungUp[s]
         /\ Live(s)
         /\ lastOp'.op = "message"
         /\ lastOp'.msg.callId = callId(s)
         /\ EndsWith(lastOp'.msg.cseq, " BYE") )
       => /\ disposed'[s]
          /\ emitted'[s] = <<"disposed">>
          /\ closeCalls'[s] = 1
          /\ socket'[s] = socketClose(socket[s], remote[s])
          /\ socket'[s] \notin {"open", "binding"}
          /\ ByeListener(s) \notin Range(listeners')
          /\ ~lastOp'.threw
    ]_vars

\* the 200 OK to A's BYE has arrived after A hung up
C15_Witness ==
  /\ hungUp["A"]
  /\ lastOp.op = "message"
  /\ lastOp.msg.callId = callId("A")
  /\ lastOp.msg.subject = "SIP/2.0 200 OK"
  /\ lastOp.msg.cseq = "2 BYE"
  /\ disposed["A"]
  /\ emitted["A"] = <<"disposed">>

(***************************************************************************)
(* C16: an inbound datagram that decrypts and parses makes the session      *)
(* emit 'rtpPacket' once and then exactly one of 'dtmfPacket', when the     *)
(* payload type is 101, or 'audioPacket', when it is not; 'dtmf' is         *)
(* emitted only for payload type 101, only when the payload decodes to a    *)
(* character, and only after 'dtmfPacket'.                                  *)
(***************************************************************************)
\* rtpPacket.header.payloadType of a datagram that decrypts and parses
PayloadType(d) == IF d \in {"dtmf-char", "dtmf-unknown"} THEN 101 ELSE 0

C16_OnePacketEventPerDatagram ==
  \A s \in Sessions :
    ( /\ lastOp.op = "datagram"
      /\ lastOp.s = s
      /\ srtpSession[s] = "set"
      /\ lastOp.arg # "garbage" )
    => LET ev == lastOp.events IN
       /\ Len(ev) >= 2
       /\ ev[1] = "rtpPacket"
       /\ Occurrences(ev, "rtpPacket") = 1
       /\ ev[2] = (IF PayloadType(lastOp.arg) = 101 THEN "dtmfPacket" ELSE "audioPacket")
       /\ Occurrences(ev, "dtmfPacket") + Occurrences(ev, "audioPacket") = 1
       /\ IF lastOp.arg = "dtmf-char" THEN ev = <<"rtpPacket", "dtmfPacket", "dtmf">>
          ELSE Len(ev) = 2

(***************************************************************************)
(* C17: dispose() runs its statements in one order: the disposed flag is    *)
(* set, then 'disposed' is emitted, then the session's listeners are        *)
(* detached, then the socket's listeners, and the socket is closed last; a  *)
(* listener of 'disposed' is thus still attached when it is emitted and     *)
(* sees the flag set.  On the teardown path the teardown listener is        *)
(* deregistered (and, for a 486, 'busy' emitted) before dispose() starts.   *)
(***************************************************************************)
\* the statements session s ran during the last call, in order
RECURSIVE StepsOf(_, _)
StepsOf(seq, s) ==
  IF seq = <<>> THEN <<>>
  ELSE (IF Head(seq).s = s THEN <<Head(seq).step>> ELSE <<>>) \o StepsOf(Tail(seq), s)

DisposeOrder ==
  << "disposed = true", "emit disposed", "removeAllListeners",
     "socket.removeAllListeners", "socket.close" >>

\* what an application's listener notes when it runs
ListenerSteps == {"listener: disposed", "listener: not disposed"}

\* the statements of the class among ran
OwnSteps(ran) == SelectSeq(ran, LAMBDA x : x \notin ListenerSteps)

IsPrefix(a, b) == Len(a) <= Len(b) /\ SubSeq(b, 1, Len(a)) = a

\* the statements ran follow order, to its end unless an exception cut them short
Follows(ran, order, threw) ==
  IF threw THEN IsPrefix(OwnSteps(ran), order) ELSE OwnSteps(ran) = order

\* a listener that runs in ran on 'disposed' finds the flag set
SeesDisposed(ran) ==
  \A i \in 2..Len(ran) :
     ( ran[i - 1] = "emit disposed" /\ ran[i] \in ListenerSteps )
     => ran[i] = "listener: disposed"

\* C17: dispose() keeps that order, alone and on the teardown path, up to the
\* statement that throws if one does, and a 'disposed' listener sees the flag set
C17_DisposeOrder ==
  \A s \in Sessions :
    LET ran == StepsOf(lastOp.steps, s) IN
    /\ ( lastOp.op = "dispose" /\ lastOp.s = s )
       => /\ Follows(ran, DisposeOrder, lastOp.threw)
          /\ SeesDisposed(ran)
    /\ ( lastOp.op = "message" /\ ran # <<>> )
       => /\ lastOp.msg.callId = callId(s)
          /\ Follows(ran,
                     <<"off">> \o (IF IsBusy(lastOp.msg) THEN <<"emit busy">> ELSE <<>>)
                               \o DisposeOrder,
                     lastOp.threw)
          /\ SeesDisposed(ran)
          /\ ByeListener(s) \notin Range(listeners)
          /\ "disposed = true" \in Range(ran) => disposed[s]

\* A's teardown listener has just run dispose() on the peer's BYE, and the
\* application's 'disposed' listener has run in it
C17_Witness ==
  /\ lastOp.op = "message"
  /\ lastOp.msg.callId = callId("A")
  /\ lastOp.msg.cseq = "7 BYE"
  /\ StepsOf(lastOp.steps, "A") =
       << "off", "disposed = true", "emit disposed", "listener: disposed",
          "removeAllListeners", "socket.removeAllListeners", "socket.close" >>
  /\ ~lastOp.threw
  /\ disposed["A"]
  /\ socket["A"] = "closed"

(***************************************************************************)
(* C18: the delivery of a message that either carries another Call-ID than  *)
(* session s's, or carries s's Call-ID but is neither a "486 Busy Here" nor *)
(* has a CSeq ending in " BYE", leaves s's disposed flag, its socket and    *)
(* the registration of its teardown listener as they were, and s emits no   *)
(* event.                                                                   *)
(***************************************************************************)
C18_OtherTrafficIgnored ==
  [][\A s \in Sessions :
       ( /\ lastOp'.op = "message"
         /\ \/ lastOp'.msg.callId # callId(s)
            \/ ~IsTeardown(lastOp'.msg) )
       => /\ disposed'[s] = disposed[s]
          /\ socket'[s] = socket[s]
          /\ socketHandler'[s] = socketHandler[s]
          /\ closeCalls'[s] = closeCalls[s]
          /\ emitted'[s] = emitted[s]
          /\ Occurrences(listeners', ByeListener(s)) = Occurrences(listeners, ByeListener(s))
          /\ StepsOf(lastOp'.steps, s) = <<>>
    ]_vars

\* a MESSAGE request of A's own dialog has gone past A's teardown listener
C18_Witness ==
  /\ lastOp.op = "message"
  /\ lastOp.msg.callId = callId("A")
  /\ lastOp.msg.cseq = "5 MESSAGE"
  /\ Live("A")
  /\ socket["A"] = "open"
  /\ emitted["A"] = <<>>

(***************************************************************************)
(* C20: an inbound NOTIFY that arrives while transfer listeners are         *)
(* registered, however many transfer() calls on one session or on several   *)
(* registered them, is answered with exactly one 200 response in total.     *)
(***************************************************************************)
C20_OneResponsePerNotify ==
  [][( /\ lastOp'.op = "message"
       /\ IsNotify(lastOp'.msg)
       /\ \E s \in Sessions : NotifyListener(s) \in Range(listeners) )
     => Cardinality({i \in 1..Len(lastOp'.sip) :
                       lastOp'.sip[i].subject = "SIP/2.0 200 OK"}) = 1
    ]_vars

====
